---- MODULE Spec2Model ----
(***************************************************************************)
(* git-push-stack: a linear sequence of local commits, each carrying a     *)
(* Change-Id trailer, is mirrored onto a chain of remote branches and pull *)
(* requests.  The model follows src/git_push_stack/__init__.py: one run of *)
(* main() is a sequence of steps, one per awaited call; the hosting API is *)
(* the remote state the calls read and write.                              *)
(***************************************************************************)
EXTENDS Integers, Sequences, FiniteSets, TLC

\* ------------------------------------------------------------------ bounds
MaxRuns == 2        \* runs of main() in a behaviour
MaxLen == 2         \* commits in the local stack range
MaxPulls == 3       \* pull requests the hosting side ever numbers
MaxFailures == 1    \* requests that fail in a behaviour

\* ------------------------------------------------------- the local commits
\* The commit objects the local branch can hold: a SHA determines the subject
\* and the body, and so the Change-Id trailers the body carries.
Shas == 1..5
Ids == {"a", "b", "c"}

\* git log -1 --format='%b': the Change-Id tokens of the body, in order
\* (the rest of the body plays no part in any decision).
MessageOf(commit) ==
    CASE commit = 1 -> <<"a">>
      [] commit = 2 -> <<"b", "a">>
      [] commit = 3 -> <<"b">>
      [] commit = 4 -> <<"c">>
      [] OTHER -> <<>>

\* git log -1 --format='%s'
TitleOf(commit) ==
    CASE commit = 1 -> "t1"
      [] commit = 2 -> "t2"
      [] commit = 3 -> "t3"
      [] commit = 4 -> "t4"
      [] OTHER -> "t5"

\* CHANGEID_RE.findall(message)
Findall(message) == message

\* changeids[-1]
LastOf(changeids) == changeids[Len(changeids)]

\* ------------------------------------------------------------ branch names
BaseBranch == <<"", "main">>
StackPrefix == "git_push_stack/dest/"
\* f"{stack_prefix}{changeid}"
StackBranch(changeid) == <<StackPrefix, changeid>>
\* branch[len(stack_prefix):]
ChangeIdOfBranch(branch) == branch[2]

\* What follows stack_prefix in the name of a branch that
\* git/matching-refs/heads/{stack_prefix} returns: the ChangeId of a branch of
\* this stack, or, when another local branch is named dest/x, the rest of the
\* name of a branch of its stack, git_push_stack/dest/x/a.
NestedKeys == {"x/a"}
Keys == Ids \cup NestedKeys

\* --------------------------------------------------------- pull snapshots
\* known_changeids maps a ChangeId to Optional[PullRequest]
None == [number |-> 0, title |-> "", sha |-> 0]

\* known_changeids.get(changeid)
Get(known_changeids, changeid) ==
    IF changeid \in DOMAIN known_changeids THEN known_changeids[changeid] ELSE None

\* ------------------------------------------------------- the hosting side
\* remote.refs[id]: the SHA of the branch StackBranch(id), 0 when there is no
\* such branch; remote.prs: the pull requests, numbered by position.
NoRemote == [refs |-> [i \in Keys |-> 0], prs |-> <<>>]

\* A pull request as the API returns it: its head SHA is the SHA of its head
\* branch at the time of the response.
PullOf(rem, n) ==
    [number |-> n, title |-> rem.prs[n].title,
     sha |-> rem.refs[ChangeIdOfBranch(rem.prs[n].head)]]

\* GET pulls?head=user:branch&state=open
ApiListPulls(rem, branch) ==
    SelectSeq([n \in 1..Len(rem.prs) |-> n],
              LAMBDA n : rem.prs[n].open /\ rem.prs[n].head = branch)

\* GET git/matching-refs/heads/{stack_prefix}
ApiMatchingRefs(rem) == {StackBranch(i) : i \in {c \in Keys : rem.refs[c] # 0}}

\* POST git/refs and PATCH git/refs/heads/{branch} (force)
ApiSetRef(rem, branch, commit) ==
    [rem EXCEPT !.refs[ChangeIdOfBranch(branch)] = commit]

\* POST pulls
ApiCreatePull(rem, title, body, draft, head, base) ==
    [rem EXCEPT !.prs = Append(@, [open |-> TRUE, head |-> head, base |-> base,
                                   title |-> title, body |-> body, draft |-> draft,
                                   comments |-> <<>>])]

\* PATCH pulls/{number}
ApiPatchPull(rem, n, title, body, head, base) ==
    [rem EXCEPT !.prs[n].title = title, !.prs[n].body = body,
                !.prs[n].head = head, !.prs[n].base = base]

\* markPullRequestReadyForReview
ApiMarkReady(rem, n) == [rem EXCEPT !.prs[n].draft = FALSE]

\* POST issues/{number}/comments
ApiPostComment(rem, n, body) == [rem EXCEPT !.prs[n].comments = Append(@, body)]

\* PATCH comment["url"]
ApiPatchComment(rem, n, c, body) == [rem EXCEPT !.prs[n].comments[c] = body]

\* DELETE git/refs/heads/{branch}: the platform closes the pull requests whose
\* head is the deleted branch.
ApiDeleteRef(rem, branch) ==
    [rem EXCEPT !.refs[ChangeIdOfBranch(branch)] = 0,
                !.prs = [n \in 1..Len(@) |->
                           IF @[n].head = branch /\ @[n].open
                           THEN [@[n] EXCEPT !.open = FALSE] ELSE @[n]]]

\* The hosting side refuses to create a ref that exists (422) and to update
\* one that does not.
RefCallAccepted(rem, op, branch) ==
    IF op = "ref_create" THEN rem.refs[ChangeIdOfBranch(branch)] = 0
    ELSE rem.refs[ChangeIdOfBranch(branch)] # 0

\* ------------------------------------------------------------- the planner
\* get_changeid_and_pull: the entry a lookup adds to known_changeids; more
\* than one open pull request raises RuntimeError.
LookupNeverFails(rem, branch) == FALSE
LookupFails(rem, branch) == Len(ApiListPulls(rem, branch)) > 1

LookupPull(rem, branch) ==
    IF ApiListPulls(rem, branch) # <<>>
    THEN PullOf(rem, ApiListPulls(rem, branch)[1])
    ELSE None

\* Change((changeid, commit, title, message))
Change(commit) ==
    [changeid |-> LastOf(Findall(MessageOf(commit))), commit |-> commit,
     title |-> TitleOf(commit), message |-> MessageOf(commit)]

\* get_local_changes: `if not changeids: sys.exit(1)`
MissingChangeId(commits) ==
    \E i \in 1..Len(commits) : Findall(MessageOf(commits[i])) = <<>>

\* get_local_changes: the changes, in the order of `commits` (newest first)
LocalChanges(commits) == [i \in 1..Len(commits) |-> Change(commits[i])]

\* A planner that tests `changeid in known_changeids` instead of the pull
\* request the index holds for it.
PlannedActionByKey(known_changeids, change) ==
    IF change.changeid \notin DOMAIN known_changeids THEN "to create"
    ELSE IF change.commit = known_changeids[change.changeid].sha THEN "nothing"
    ELSE "to update"

\* get_local_changes: the action logged for one change
PlannedAction(known_changeids, change) ==
    IF Get(known_changeids, change.changeid) = None THEN "to create"
    ELSE IF change.commit = Get(known_changeids, change.changeid).sha THEN "nothing"
    ELSE "to update"

PlannedActions(known_changeids, chgs) ==
    [i \in 1..Len(chgs) |-> PlannedAction(known_changeids, chgs[i])]

\* A pruner that forgets the keys that have no pull request.
ChangeIdsToDeleteNoOrphans(chgs, known_changeids) ==
    {c \in DOMAIN known_changeids : known_changeids[c] # None}
        \ {chgs[i].changeid : i \in 1..Len(chgs)}

\* get_changeids_to_delete
ChangeIdsToDelete(chgs, known_changeids) ==
    DOMAIN known_changeids \ {chgs[i].changeid : i \in 1..Len(chgs)}

\* reversed(changes)
Reversed(s) == [i \in 1..Len(s) |-> s[Len(s) + 1 - i]]

\* ------------------------------------------------------------- the builder
\* create_or_update_stack: which branch-ref call is issued
RefCallByPull(known_changeids, changeid) ==
    IF Get(known_changeids, changeid) # None THEN "ref_update" ELSE "ref_create"
RefCall(known_changeids, changeid) ==
    IF changeid \in DOMAIN known_changeids THEN "ref_update" ELSE "ref_create"

\* create_or_update_stack: the action taken on the pull request
BuilderAction(known_changeids, change) ==
    IF Get(known_changeids, change.changeid) # None
       /\ Get(known_changeids, change.changeid).sha = change.commit THEN "nothing"
    ELSE IF Get(known_changeids, change.changeid) # None THEN "updated"
    ELSE "created"

\* A body that never carries the Depends-On line.
BodyOfNoDepends(change, pulls) == [msg |-> change.message, dep |-> 0]

\* message + depends_on
BodyOf(change, pulls) ==
    [msg |-> change.message,
     dep |-> IF pulls # <<>> THEN pulls[Len(pulls)].number ELSE 0]

\* create_or_update_comments: the canonical body, one entry per pull
CommentBody(pulls) ==
    [i \in 1..Len(pulls) |-> <<pulls[i].title, pulls[i].number>>]

\* ------------------------------------------------- a run without a failure
\* main(): known_changeids once every lookup has been merged
IndexOf(rem) ==
    [c \in {ChangeIdOfBranch(r) : r \in ApiMatchingRefs(rem)} |->
        LookupPull(rem, StackBranch(c))]

\* One iteration of the loop over reversed(changes) with every call accepted:
\* st carries the remote state and the loop variables.
BuildOne(st, change, known_changeids) ==
    LET dest == StackBranch(change.changeid)
        action == BuilderAction(known_changeids, change)
        old == Get(known_changeids, change.changeid)
        body == BodyOf(change, st.pulls)
        rem1 == ApiSetRef(st.remote, dest, change.commit)
        rem2 == CASE action = "nothing" -> rem1
                  [] action = "updated" ->
                       ApiPatchPull(rem1, old.number, change.title, body, dest, st.base)
                  [] action = "created" ->
                       ApiCreatePull(rem1, change.title, body, st.draft, dest, st.base)
        rem3 == IF action = "updated" /\ ~st.draft
                THEN ApiMarkReady(rem2, old.number) ELSE rem2
        p == CASE action = "nothing" -> old
               [] action = "updated" -> PullOf(rem2, old.number)
               [] action = "created" -> PullOf(rem2, Len(rem2.prs))
    IN [remote |-> rem3, pulls |-> Append(st.pulls, p), base |-> dest, draft |-> TRUE,
        ok |-> st.ok /\ RefCallAccepted(st.remote,
                                        RefCall(known_changeids, change.changeid), dest)]

RECURSIVE BuildAll(_, _, _, _)
BuildAll(st, chgs, i, known_changeids) ==
    IF i > Len(chgs) THEN st
    ELSE BuildAll(BuildOne(st, chgs[i], known_changeids), chgs, i + 1, known_changeids)

\* create_or_update_comments with every call accepted
RECURSIVE SyncAll(_, _, _)
SyncAll(rem, pulls, j) ==
    IF j > Len(pulls) THEN rem
    ELSE LET n == pulls[j].number
             found == rem.prs[n].comments
             body == CommentBody(pulls)
         IN SyncAll(IF found = <<>> THEN ApiPostComment(rem, n, body)
                    ELSE IF found[1] # body THEN ApiPatchComment(rem, n, 1, body)
                    ELSE rem, pulls, j + 1)

\* every delete_stack task served
RECURSIVE DeleteAll(_, _)
DeleteAll(rem, todo) ==
    IF todo = {} THEN rem
    ELSE LET c == CHOOSE x \in todo : TRUE
         IN DeleteAll(ApiDeleteRef(rem, StackBranch(c)), todo \ {c})

\* The remote state a run of main() over `cs` leaves when no call fails, and
\* whether such a run exists (ok).
FullRun(rem, cs) ==
    LET known == IndexOf(rem)
        chgs == LocalChanges(cs)
        st == BuildAll([remote |-> rem, pulls |-> <<>>, base |-> BaseBranch,
                        draft |-> FALSE, ok |-> TRUE], Reversed(chgs), 1, known)
    IN [ok |-> st.ok,
        remote |-> DeleteAll(SyncAll(st.remote, st.pulls, 1),
                             ChangeIdsToDelete(chgs, known))]

\* ---------------------------------------------------------------- the state
VARIABLES
    remote,               \* the hosting side: branch refs and pull requests
    runNo,                \* runs of main() started so far
    pc,                   \* the position of the current run in main()
    exit,                 \* "running", "0", "1" (sys.exit(1)) or "exc" (raised)
    commits,              \* git log base..dest_branch, newest first
    dry_run,
    known_changeids,
    tasks,                \* the lookups not yet completed
    changes,
    plan,                 \* the action get_local_changes logs for each change
    changeids_to_delete,
    k,                    \* the position of the builder loop in reversed(changes)
    stacked_base_branch,
    draft,
    pull,                 \* the pull request of the entry being built
    pulls,
    built,                \* per entry built: the arguments and the action taken
    synced,               \* pulls whose comment has been synchronized
    delete_tasks,         \* the deletions not yet completed
    calls,                \* the mutating calls this run has issued, in order
    clean,                \* no call of this run has failed
    start,                \* the remote state this run started from
    prev,                 \* the run before: its success, mode, cleanness and start
    failures              \* requests that have failed so far

vars == <<remote, runNo, pc, exit, commits, dry_run, known_changeids, tasks,
          changes, plan, changeids_to_delete, k, stacked_base_branch, draft,
          pull, pulls, built, synced, delete_tasks, calls, clean, start, prev,
          failures>>

runVars == <<known_changeids, tasks, changes, plan, changeids_to_delete, k,
             stacked_base_branch, draft, pull, pulls, built, synced, delete_tasks>>

\* The commit ranges a run can find: distinct commits, newest first.
Stacks ==
    {s \in UNION {[1..n -> Shas] : n \in 1..MaxLen} :
        \A i, j \in DOMAIN s : i # j => s[i] # s[j]}

Outcomes == {"ok", "4xx", "5xx"}
GitOutcomes == {"ok", "fail"}

NoKnown == [c \in {} |-> None]
NoPrev == [finished |-> FALSE, dry_run |-> FALSE, clean |-> FALSE, start |-> NoRemote]

\* The commits an earlier run may have published.
PublishedStacks ==
    {s \in Stacks : /\ \A i \in DOMAIN s : s[i] \in {1, 3}
                    /\ FullRun(NoRemote, s).ok}

\* The remote states a run can start from: nothing published yet, what an
\* earlier run of main() over another state of the local branch has left, or
\* what such a run has left when it was aborted between the creation of the
\* branch ref and the creation of the pull request.
InitRemotes ==
    {NoRemote}
        \cup {FullRun(NoRemote, s).remote : s \in PublishedStacks}
        \cup {ApiSetRef(NoRemote, StackBranch(Change(s[1]).changeid), s[1]) :
                 s \in {t \in PublishedStacks : Len(t) = 1}}

\* One request the run has sent, with the response it got: the operation,
\* the ChangeId and pull number it is about, and r, the class of the response.
Call(op, changeid, n, r) == [op |-> op, id |-> changeid, n |-> n, r |-> r]

\* The remote as a run on the local branch dest finds it when a run on another
\* local branch, dest/x, has published the one commit of that branch before:
\* the branch git_push_stack/dest/x/a, its pull request onto the base branch
\* and the summary comment of that stack.
WithNested(rem) ==
    LET other == StackBranch("x/a")
        n == Len(rem.prs) + 1
        r1 == ApiSetRef(rem, other, 1)
        r2 == ApiCreatePull(r1, TitleOf(1), [msg |-> MessageOf(1), dep |-> 0],
                            FALSE, other, BaseBranch)
    IN ApiPostComment(r2, n, CommentBody(<<PullOf(r2, n)>>))

NestedRemotes ==
    {WithNested(rem) :
        rem \in {NoRemote} \cup {FullRun(NoRemote, s).remote :
                                     s \in {t \in PublishedStacks : Len(t) = 1}}}

InitFrom(remotes) ==
    /\ remote \in remotes
    /\ start = NoRemote
    /\ runNo = 0
    /\ pc = "idle"
    /\ exit = "none"
    /\ commits = <<>>
    /\ dry_run = FALSE
    /\ known_changeids = NoKnown
    /\ tasks = {}
    /\ changes = <<>>
    /\ plan = <<>>
    /\ changeids_to_delete = {}
    /\ k = 0
    /\ stacked_base_branch = BaseBranch
    /\ draft = FALSE
    /\ pull = None
    /\ pulls = <<>>
    /\ built = <<>>
    /\ synced = 0
    /\ delete_tasks = {}
    /\ calls = <<>>
    /\ clean = TRUE
    /\ prev = NoPrev
    /\ failures = 0

Init == InitFrom(InitRemotes)

\* The same program started where the stack of the local branch dest/x is
\* published too.
InitNested == InitFrom(NestedRemotes)

\* `await task` over every lookup task, asyncio.wait(delete_tasks): the run
\* goes on once no task of the set is pending.
JoinedFirstCompleted(pending) == TRUE
Joined(pending) == pending = {}

\* The response o to a request: at most MaxFailures requests fail.
Response(o) ==
    /\ o # "ok" => failures < MaxFailures
    /\ failures' = IF o # "ok" THEN failures + 1 ELSE failures

\* check_for_status: sys.exit(1) on 4xx, raise_for_status() on 5xx
ExitOf(o) == IF o = "4xx" THEN "1" ELSE "exc"

\* A check_for_status that reports the failure and lets the caller go on to
\* the comment stage.
AbortGoesOn(code) ==
    /\ pc' = "comments"
    /\ exit' = exit
    /\ clean' = FALSE

\* The run stops here: the process exits.
Abort(code) ==
    /\ pc' = "failed"
    /\ exit' = code
    /\ clean' = FALSE

\* A main() that rebases and pushes in dry-run mode too.
FirstStepAlwaysRebase(d) == "rebase"

\* main(): `if not dry_run:` guards the rebase and the push
FirstStep(d) == IF d THEN "merge_base" ELSE "rebase"

\* cli() -> main(token, dry_run): a new process; nothing is kept from the run
\* before but the remote state.
Begin(d) ==
    /\ runNo < MaxRuns
    /\ runNo' = runNo + 1
    /\ dry_run' = d
    /\ start' = remote
    /\ pc' = FirstStep(d)
    /\ exit' = "running"
    /\ known_changeids' = NoKnown
    /\ tasks' = {}
    /\ changes' = <<>>
    /\ plan' = <<>>
    /\ changeids_to_delete' = {}
    /\ k' = 0
    /\ stacked_base_branch' = BaseBranch
    /\ draft' = FALSE
    /\ pull' = None
    /\ pulls' = <<>>
    /\ built' = <<>>
    /\ synced' = 0
    /\ delete_tasks' = {}
    /\ calls' = <<>>
    /\ clean' = TRUE
    /\ UNCHANGED <<remote, failures>>

\* The first run: the local branch holds the commits cs.
StartRun(cs, d) ==
    /\ pc = "idle"
    /\ commits' = cs
    /\ prev' = NoPrev
    /\ Begin(d)

\* The tool is run again over the same local commits.  prev keeps how the
\* run before ended and, when it was aborted, the remote state it had started
\* from.
Rerun(d) ==
    /\ pc \in {"done", "failed"}
    /\ prev' = [finished |-> (exit = "0"), dry_run |-> dry_run, clean |-> clean,
                start |-> IF exit = "0" \/ dry_run THEN NoRemote ELSE start]
    /\ UNCHANGED commits
    /\ Begin(d)

\* git pull --rebase {remote} {base_branch}
Rebase(o) ==
    /\ pc = "rebase"
    /\ Response(o)
    /\ calls' = Append(calls, Call("rebase", "", 0, o))
    /\ IF o = "ok" THEN pc' = "push" /\ UNCHANGED <<exit, clean>> ELSE Abort("1")
    /\ UNCHANGED <<remote, runNo, commits, dry_run, start, prev, runVars>>

\* git push -f {remote} {dest_branch}
Push(o) ==
    /\ pc = "push"
    /\ Response(o)
    /\ calls' = Append(calls, Call("push", "", 0, o))
    /\ IF o = "ok" THEN pc' = "merge_base" /\ UNCHANGED <<exit, clean>> ELSE Abort("1")
    /\ UNCHANGED <<remote, runNo, commits, dry_run, start, prev, runVars>>

\* git merge-base --fork-point, then git log base..dest_branch
MergeBase(o) ==
    /\ pc = "merge_base"
    /\ Response(o)
    /\ IF o = "ok" THEN pc' = "list_refs" /\ UNCHANGED <<exit, clean>> ELSE Abort("1")
    /\ UNCHANGED <<remote, runNo, commits, dry_run, start, prev, runVars, calls>>

\* GET git/matching-refs/heads/{stack_prefix}; one lookup task per ref
ListRefs(o) ==
    /\ pc = "list_refs"
    /\ Response(o)
    /\ IF o = "ok"
       THEN /\ tasks' = ApiMatchingRefs(remote)
            /\ pc' = "lookups"
            /\ UNCHANGED <<exit, clean>>
       ELSE Abort(ExitOf(o)) /\ UNCHANGED tasks
    /\ UNCHANGED <<remote, runNo, commits, dry_run, start, prev, calls, known_changeids,
                   changes, plan, changeids_to_delete, k, stacked_base_branch,
                   draft, pull, pulls, built, synced, delete_tasks>>

\* One get_changeid_and_pull task completes; its result is merged into
\* known_changeids.
Lookup(ref, o) ==
    /\ pc = "lookups"
    /\ ref \in tasks
    /\ Response(o)
    /\ IF o # "ok" THEN Abort(ExitOf(o)) /\ UNCHANGED <<tasks, known_changeids>>
       ELSE IF LookupFails(remote, ref)
       THEN Abort("exc") /\ UNCHANGED <<tasks, known_changeids>>
       ELSE /\ tasks' = tasks \ {ref}
            /\ known_changeids' =
                 (ChangeIdOfBranch(ref) :> LookupPull(remote, ref)) @@ known_changeids
            /\ UNCHANGED <<pc, exit, clean>>
    /\ UNCHANGED <<remote, runNo, commits, dry_run, start, prev, calls,
                   changes, plan, changeids_to_delete, k, stacked_base_branch,
                   draft, pull, pulls, built, synced, delete_tasks>>

\* get_local_changes and get_changeids_to_delete, once every lookup is joined;
\* in dry-run mode sys.exit(0) follows.
Plan ==
    /\ pc = "lookups"
    /\ Joined(tasks)
    /\ UNCHANGED failures
    /\ IF MissingChangeId(commits)
       THEN Abort("1") /\ UNCHANGED <<changes, plan, changeids_to_delete, k>>
       ELSE /\ changes' = LocalChanges(commits)
            /\ plan' = PlannedActions(known_changeids, changes')
            /\ changeids_to_delete' = ChangeIdsToDelete(changes', known_changeids)
            /\ k' = 1
            /\ IF dry_run
               THEN pc' = "done" /\ exit' = "0"
               ELSE pc' = "build_ref" /\ UNCHANGED exit
            /\ UNCHANGED clean
    /\ UNCHANGED <<remote, runNo, commits, dry_run, start, prev, calls, known_changeids,
                   tasks, stacked_base_branch, draft, pull, pulls, built, synced,
                   delete_tasks>>

\* The entry the builder loop is at.
Entry == Reversed(changes)[k]

\* A loop that never sets draft = True.
NextEntryKeepsDraft(p, action) ==
    /\ pulls' = Append(pulls, p)
    /\ built' = Append(built, [changeid |-> Entry.changeid, action |-> action,
                               draft |-> draft, base |-> stacked_base_branch])
    /\ stacked_base_branch' = StackBranch(Entry.changeid)
    /\ draft' = draft
    /\ k' = k + 1
    /\ pull' = None
    /\ pc' = IF k = Len(changes) THEN "comments" ELSE "build_ref"

\* pulls.append(pull); stacked_base_branch = stacked_dest_branch; draft = True
NextEntry(p, action) ==
    /\ pulls' = Append(pulls, p)
    /\ built' = Append(built, [changeid |-> Entry.changeid, action |-> action,
                               draft |-> draft, base |-> stacked_base_branch])
    /\ stacked_base_branch' = StackBranch(Entry.changeid)
    /\ draft' = TRUE
    /\ k' = k + 1
    /\ pull' = None
    /\ pc' = IF k = Len(changes) THEN "comments" ELSE "build_ref"

\* create_or_update_stack, first call: PATCH git/refs/heads/{branch} when the
\* ChangeId is a key of known_changeids, POST git/refs otherwise.
BuildRef(o) ==
    /\ pc = "build_ref"
    /\ Response(o)
    /\ o = "ok" => RefCallAccepted(remote, RefCall(known_changeids, Entry.changeid),
                                   StackBranch(Entry.changeid))
    /\ calls' = Append(calls, Call(RefCall(known_changeids, Entry.changeid),
                                   Entry.changeid, 0, o))
    /\ IF o = "ok"
       THEN /\ remote' = ApiSetRef(remote, StackBranch(Entry.changeid), Entry.commit)
            /\ pc' = "build_pull"
            /\ UNCHANGED <<exit, clean>>
       ELSE Abort(ExitOf(o)) /\ UNCHANGED remote
    /\ UNCHANGED <<runNo, commits, dry_run, start, prev, runVars>>

\* create_or_update_stack, second call: nothing, PATCH pulls/{number} or
\* POST pulls, by the snapshot known_changeids holds.
BuildPull(o) ==
    /\ pc = "build_pull"
    /\ Response(o)
    /\ LET action == BuilderAction(known_changeids, Entry)
           old == Get(known_changeids, Entry.changeid)
           body == BodyOf(Entry, pulls)
           dest == StackBranch(Entry.changeid)
       IN CASE action = "nothing" ->
                 /\ o = "ok"
                 /\ NextEntry(old, action)
                 /\ UNCHANGED <<remote, calls, exit, clean>>
            [] action = "updated" ->
                 /\ calls' = Append(calls, Call("pull_patch", Entry.changeid, old.number, o))
                 /\ IF o = "ok"
                    THEN /\ remote' = ApiPatchPull(remote, old.number, Entry.title,
                                                   body, dest, stacked_base_branch)
                         /\ IF ~draft
                            THEN /\ pull' = PullOf(remote', old.number)
                                 /\ pc' = "build_ready"
                                 /\ UNCHANGED <<pulls, built, stacked_base_branch,
                                                draft, k>>
                            ELSE NextEntry(PullOf(remote', old.number), action)
                         /\ UNCHANGED <<exit, clean>>
                    ELSE /\ Abort(ExitOf(o))
                         /\ UNCHANGED <<remote, pull, pulls, built,
                                        stacked_base_branch, draft, k>>
            [] action = "created" ->
                 /\ o = "ok" => Len(remote.prs) < MaxPulls
                 /\ calls' = Append(calls, Call("pull_create", Entry.changeid, 0, o))
                 /\ IF o = "ok"
                    THEN /\ remote' = ApiCreatePull(remote, Entry.title, body, draft,
                                                    dest, stacked_base_branch)
                         /\ NextEntry(PullOf(remote', Len(remote'.prs)), action)
                         /\ UNCHANGED <<exit, clean>>
                    ELSE /\ Abort(ExitOf(o))
                         /\ UNCHANGED <<remote, pull, pulls, built,
                                        stacked_base_branch, draft, k>>
    /\ UNCHANGED <<runNo, commits, dry_run, start, prev, known_changeids, tasks, changes,
                   plan, changeids_to_delete, synced, delete_tasks>>

\* create_or_update_stack, `if not draft:` after a successful patch: the
\* ready-for-review mutation.
BuildReady(o) ==
    /\ pc = "build_ready"
    /\ Response(o)
    /\ calls' = Append(calls, Call("ready", Entry.changeid, pull.number, o))
    /\ IF o = "ok"
       THEN /\ remote' = ApiMarkReady(remote, pull.number)
            /\ NextEntry(pull, "updated")
            /\ UNCHANGED <<exit, clean>>
       ELSE /\ Abort(ExitOf(o))
            /\ UNCHANGED <<remote, pull, pulls, built, stacked_base_branch, draft, k>>
    /\ UNCHANGED <<runNo, commits, dry_run, start, prev, known_changeids, tasks, changes,
                   plan, changeids_to_delete, synced, delete_tasks>>

\* create_or_update_comments, one pull of the loop: GET issues/{n}/comments
\* (checked), then PATCH or POST of the summary comment (its response is not
\* checked).  Only the comments that start with first_line are kept in the
\* model; the others are skipped by the loop.
SyncComment(o, w) ==
    /\ pc = "comments"
    /\ Response(IF o # "ok" THEN o ELSE w)
    /\ synced < Len(pulls)
    /\ LET n == pulls[synced + 1].number
           body == CommentBody(pulls)
           found == remote.prs[n].comments
       IN IF o # "ok"
          THEN /\ w = "ok"
               /\ Abort(ExitOf(o))
               /\ UNCHANGED <<remote, calls, synced, delete_tasks>>
          ELSE /\ IF found # <<>> /\ found[1] = body
                  THEN /\ w = "ok"
                       /\ UNCHANGED <<remote, calls, clean>>
                  ELSE /\ calls' = Append(calls,
                            Call(IF found # <<>> THEN "comment_patch"
                                 ELSE "comment_create", "", n, w))
                       /\ remote' = IF w # "ok" THEN remote
                                    ELSE IF found # <<>>
                                    THEN ApiPatchComment(remote, n, 1, body)
                                    ELSE ApiPostComment(remote, n, body)
                       /\ clean' = (clean /\ w = "ok")
               /\ synced' = synced + 1
               /\ IF synced' = Len(pulls)
                  THEN pc' = "deleting" /\ delete_tasks' = changeids_to_delete
                  ELSE UNCHANGED <<pc, delete_tasks>>
               /\ UNCHANGED exit
    /\ UNCHANGED <<runNo, commits, dry_run, start, prev, known_changeids, tasks, changes,
                   plan, changeids_to_delete, k, stacked_base_branch, draft, pull,
                   pulls, built>>

\* One delete_stack task completes.  A 4xx ends the process from inside the
\* task (sys.exit) while the other deletions are in flight: any of them may
\* still be served.  A 5xx is an exception kept in the task, which
\* asyncio.wait does not raise.
DeleteStack(changeid, o, served) ==
    /\ pc = "deleting"
    /\ changeid \in delete_tasks
    /\ Response(o)
    /\ served \subseteq delete_tasks \ {changeid}
    /\ o # "4xx" => served = {}
    /\ o = "ok" => remote.refs[changeid] # 0
    /\ calls' = Append(calls, Call("ref_delete", changeid, 0, o))
    /\ CASE o = "ok" ->
              /\ remote' = ApiDeleteRef(remote, StackBranch(changeid))
              /\ delete_tasks' = delete_tasks \ {changeid}
              /\ UNCHANGED <<pc, exit, clean>>
         [] o = "5xx" ->
              /\ delete_tasks' = delete_tasks \ {changeid}
              /\ clean' = FALSE
              /\ UNCHANGED <<remote, pc, exit>>
         [] o = "4xx" ->
              /\ remote' = [remote EXCEPT
                    !.refs = [i \in Keys |-> IF i \in served THEN 0 ELSE @[i]],
                    !.prs = [n \in 1..Len(@) |->
                               IF ChangeIdOfBranch(@[n].head) \in served /\ @[n].open
                               THEN [@[n] EXCEPT !.open = FALSE] ELSE @[n]]]
              /\ Abort("1")
              /\ UNCHANGED delete_tasks
    /\ UNCHANGED <<runNo, commits, dry_run, start, prev, known_changeids, tasks, changes,
                   plan, changeids_to_delete, k, stacked_base_branch, draft, pull,
                   pulls, built, synced>>

\* console.log("Finished"), once every deletion is joined
Finish ==
    /\ pc = "deleting"
    /\ Joined(delete_tasks)
    /\ UNCHANGED failures
    /\ pc' = "done"
    /\ exit' = "0"
    /\ UNCHANGED <<remote, runNo, commits, dry_run, start, prev, runVars, calls, clean>>

Next ==
    \/ \E cs \in Stacks, d \in BOOLEAN : StartRun(cs, d)
    \/ \E d \in BOOLEAN : Rerun(d)
    \/ \E o \in GitOutcomes : Rebase(o)
    \/ \E o \in GitOutcomes : Push(o)
    \/ \E o \in GitOutcomes : MergeBase(o)
    \/ \E o \in Outcomes : ListRefs(o)
    \/ \E ref \in tasks, o \in Outcomes : Lookup(ref, o)
    \/ Plan
    \/ \E o \in Outcomes : BuildRef(o)
    \/ \E o \in Outcomes : BuildPull(o)
    \/ \E o \in Outcomes : BuildReady(o)
    \/ \E o, w \in Outcomes : SyncComment(o, w)
    \/ \E c \in delete_tasks, o \in Outcomes, served \in SUBSET delete_tasks :
          DeleteStack(c, o, served)
    \/ Finish

Spec == Init /\ [][Next]_vars
SpecNested == InitNested /\ [][Next]_vars

\* ================================================================ properties

\* The identifiers of the local changes.
LocalIds == {changes[i].changeid : i \in 1..Len(changes)}

\* The local changes carry pairwise distinct identifiers.
DistinctIds == \A i, j \in 1..Len(changes) : i # j => changes[i].changeid # changes[j].changeid

\* Planning has completed in this run.
Planned == plan # <<>>

\* The index holds an open pull request for the identifier.
HasPull(changeid) ==
    changeid \in DOMAIN known_changeids /\ known_changeids[changeid] # None

\* The builder's name for a planned action.
BuiltName(planned) ==
    CASE planned = "nothing" -> "nothing"
      [] planned = "to update" -> "updated"
      [] planned = "to create" -> "created"

\* C1: planning gives each local change exactly one of create / no-op /
\* update: no-op iff the index holds a pull request for its identifier whose
\* head SHA is the commit SHA, update iff it holds one with another head SHA,
\* create iff it holds none (the identifier maps to absent: no key, or a key
\* without a pull request); the builder then acts on each entry as planned.
C1_Classification ==
    Planned =>
      /\ Len(plan) = Len(changes)
      /\ \A i \in 1..Len(changes) :
           LET c == changes[i] IN
           /\ plan[i] \in {"to create", "nothing", "to update"}
           /\ plan[i] = "nothing" <=>
                (HasPull(c.changeid) /\ known_changeids[c.changeid].sha = c.commit)
           /\ plan[i] = "to update" <=>
                (HasPull(c.changeid) /\ known_changeids[c.changeid].sha # c.commit)
           /\ plan[i] = "to create" <=> ~HasPull(c.changeid)
      /\ \A j \in 1..Len(built) :
           built[j].action = BuiltName(plan[Len(changes) + 1 - j])

\* A two-entry stack whose older change has a branch without a pull request
\* (planned as create) and whose newer one is planned as update, both built.
C1_Witness ==
    /\ Len(built) = 2
    /\ plan[2] = "to create" /\ changes[2].changeid \in DOMAIN known_changeids
    /\ plan[1] = "to update"

\* C2: get_changeids_to_delete returns exactly keys(I) minus the local
\* identifiers: a key is in the set iff no local change carries it, whether or
\* not its branch has an open pull request, and nothing else is in the set.
C2_DeleteSet ==
    Planned =>
      /\ \A c \in Keys :
           c \in changeids_to_delete <=>
             (start.refs[c] # 0 /\ \A i \in 1..Len(changes) : changes[i].changeid # c)
      /\ changeids_to_delete \cap LocalIds = {}
      /\ \A c \in DOMAIN known_changeids :
           (known_changeids[c] = None /\ c \notin LocalIds) => c \in changeids_to_delete

\* The delete set holds a key whose branch has no pull request, next to a
\* planned local change.
C2_Witness ==
    /\ Planned
    /\ \E c \in changeids_to_delete : known_changeids[c] = None

\* The delete set holds two keys that have a pull request.
C2_WitnessPulls ==
    /\ Planned
    /\ \E c, d \in changeids_to_delete :
          c # d /\ known_changeids[c] # None /\ known_changeids[d] # None

\* The calls of this run that write to the hosting API (rebase and push are
\* git operations on the local branch and its remote counterpart).
ApiWrites == {"ref_create", "ref_update", "pull_create", "pull_patch", "ready",
              "comment_create", "comment_patch", "ref_delete"}

WritesIssued == {calls[i].op : i \in 1..Len(calls)} \cap ApiWrites

\* This run follows a complete successful run over the same local commits and
\* starts from the remote state that run left.
SecondRun ==
    /\ runNo >= 2
    /\ ~dry_run
    /\ prev.finished /\ prev.clean /\ ~prev.dry_run

\* C3: idempotence: in a run that follows a complete successful run with the
\* same local stack and the remote state it left, every change classifies
\* as no-op and no mutating hosting-API call and no comment write is issued.
C3_Idempotent ==
    (SecondRun /\ DistinctIds) =>
      /\ \A i \in 1..Len(plan) : plan[i] = "nothing"
      /\ WritesIssued = {}

\* The pull request published for entry j, as the hosting side holds it now.
Published(j) == remote.prs[pulls[j].number]

\* A run that was not a dry run has reported "Finished".
Finished == pc = "done" /\ ~dry_run

\* C4: chain integrity: after any successful run the remote base of p_1 is
\* the upstream base branch and the remote base of p_i (i > 1) is the head
\* branch of p_(i-1), whatever actions the run took.
C4_ChainIntegrity ==
    (Finished /\ DistinctIds) =>
      /\ Published(1).base = BaseBranch
      /\ \A j \in 2..Len(pulls) : Published(j).base = Published(j - 1).head

\* C5: draft invariant: exactly the first entry built is requested as ready
\* and every later one as draft, whatever action the entry is classified as:
\* the draft flag handed to create_or_update_stack is FALSE for p_1 and TRUE
\* for p_i (i > 1), a pull request is created with that flag, and the ready
\* transition is requested for p_1 alone.
C5_DraftRequested ==
    /\ \A j \in 1..Len(built) :
         /\ built[j].draft = (j > 1)
         /\ built[j].action = "created" => Published(j).draft = (j > 1)
    /\ pc \in {"build_ref", "build_pull", "build_ready"} => draft = (k > 1)
    /\ \A i \in 1..Len(calls) :
         calls[i].op = "ready" => calls[i].id = Reversed(changes)[1].changeid

\* A finished run that took no action on p_1 and updated p_2.
C5_Witness ==
    /\ Finished
    /\ Len(built) = 2
    /\ built[1].action = "nothing" /\ built[2].action = "updated"

\* A finished run that updated p_1 (ready requested) and created p_2.
C5_WitnessReady ==
    /\ Finished
    /\ Len(built) = 2
    /\ built[1].action = "updated" /\ built[2].action = "created"

\* C6: two local commits with the same ChangeId end the run with a fatal
\* error and no mutation: nothing is written to the hosting API and the run
\* never ends in success.
C6_DuplicateFatal ==
    (Planned /\ ~DistinctIds /\ ~dry_run) => (WritesIssued = {} /\ exit # "0")

\* C7: a dry run stops after planning, before any mutation: no rebase, no
\* push and no hosting-API write is issued, the remote state is left as it
\* was, and once planning has completed the run has ended with exit status 0.
C7_DryRun ==
    dry_run =>
      /\ calls = <<>>
      /\ remote = start
      /\ pc \in {"merge_base", "list_refs", "lookups", "done", "failed"}
      /\ Planned => (pc = "done" /\ exit = "0")

\* A dry run that planned an update, a create and a deletion, and exited 0.
C7_Witness ==
    /\ dry_run /\ pc = "done" /\ exit = "0"
    /\ \E i, j \in 1..Len(plan) : plan[i] = "to update" /\ plan[j] = "to create"
    /\ changeids_to_delete # {}

\* The remote stack matches the local one: the branches under the prefix are
\* those of the local identifiers, each at the SHA of its change, each the
\* head of exactly one open pull request.
Converged ==
    /\ {c \in Keys : remote.refs[c] # 0} = LocalIds
    /\ \A i \in 1..Len(changes) :
         /\ remote.refs[changes[i].changeid] = changes[i].commit
         /\ Len(ApiListPulls(remote, StackBranch(changes[i].changeid))) = 1

\* C8: convergence: after any successful non-dry run over pairwise distinct
\* identifiers the remote stack matches the local one.
C8_Convergence == (Finished /\ DistinctIds) => Converged

\* Convergence of the runs in which no call failed.
ConvergedWhenClean == (Finished /\ DistinctIds /\ clean) => Converged

\* The identifiers whose branch this run has deleted.
Deleted == {c \in changeids_to_delete : start.refs[c] # 0 /\ remote.refs[c] = 0}

\* C9: pruning runs only after the whole stack has been built, and no branch
\* the pruner has deleted is the head branch or the current remote base
\* branch of a pull request of the list this run published.
C9_PruneAfterBuild ==
    DistinctIds =>
      /\ "ref_delete" \in WritesIssued => Len(built) = Len(changes)
      /\ \A c \in Deleted : \A j \in 1..Len(pulls) :
           /\ Published(j).head # StackBranch(c)
           /\ Published(j).base # StackBranch(c)

\* The part of the remote state the stack consists of: the branch refs and
\* each pull request without its comments.
StackView(rem) ==
    [refs |-> rem.refs,
     prs |-> [n \in 1..Len(rem.prs) |->
                [open |-> rem.prs[n].open, head |-> rem.prs[n].head,
                 base |-> rem.prs[n].base, title |-> rem.prs[n].title,
                 body |-> rem.prs[n].body, draft |-> rem.prs[n].draft]]]

\* This run had no failure and follows a run over the same local commits
\* that a failed hosting-API call aborted after it had changed the remote
\* state.
Recovered ==
    /\ runNo >= 2
    /\ Finished /\ clean
    /\ ~prev.finished /\ ~prev.dry_run
    /\ prev.start # start

\* C10: recovery by re-run: after an aborted run, a following run with the
\* same local stack and no failure leaves the remote stack in the state a
\* single run without failure would have produced.
C10_Recovery ==
    (Recovered /\ DistinctIds /\ FullRun(prev.start, commits).ok) =>
      StackView(remote) = StackView(FullRun(prev.start, commits).remote)

\* A run in which no call failed leaves what FullRun computes.
FullRunAgrees ==
    (Finished /\ clean) =>
      (FullRun(start, commits).ok /\ remote = FullRun(start, commits).remote)

\* -------------------------------------------------- failures in the builder
\* The calls of create_or_update_stack.
BuilderOps == {"ref_create", "ref_update", "pull_create", "pull_patch", "ready"}

\* The builder loop has started and has not completed every entry.
InBuilder == Planned /\ ~dry_run /\ Len(built) < Len(changes)

\* This step sends a request: the call log grows by the call NewCall.
Issued == Len(calls') = Len(calls) + 1
NewCall == calls'[Len(calls')]

\* The branches and the pull requests of the entries the builder has
\* completed are on the remote as the builder left them.
BuiltInPlace ==
    \A j \in 1..Len(built) :
       /\ remote.refs[built[j].changeid] = changes[Len(changes) + 1 - j].commit
       /\ pulls[j].number <= Len(remote.prs)
       /\ remote.prs[pulls[j].number].open
       /\ built[j].action = "created" => pulls[j].number > Len(start.prs)

\* C11: a step in which a branch-ref or pull-request call of the builder
\* fails ends the run (exit status 1 on a client error) and leaves the remote
\* state as it was, with the branches and pull requests of the entries
\* completed before still in place; once a run has failed the only step is
\* the start of another run, so no call follows for a later entry; and a
\* comment write or branch deletion is only ever issued when the builder has
\* completed every entry.
C11_BuilderAbort ==
    [][/\ (Issued /\ NewCall.op \in BuilderOps /\ NewCall.r # "ok") =>
             /\ pc' = "failed" /\ exit' = ExitOf(NewCall.r)
             /\ InBuilder'
             /\ remote' = remote
             /\ DistinctIds => BuiltInPlace'
       /\ pc = "failed" => (runNo' = runNo + 1 /\ calls' = <<>>)
       /\ (Issued /\ NewCall.op \in {"comment_create", "comment_patch", "ref_delete"}) =>
             (Len(built) = Len(changes) /\ pc \in {"comments", "deleting"})
      ]_vars

\* The pull-request call of the second entry got a client error after the
\* first entry was created, with index keys that await deletion.
C11_Witness ==
    /\ pc = "failed" /\ exit = "1"
    /\ Len(changes) = 2 /\ Len(built) = 1
    /\ built[1].action = "created"
    /\ calls[Len(calls)].op = "pull_create" /\ calls[Len(calls)].r = "4xx"
    /\ changeids_to_delete # {}

\* ------------------------------------------------------ failed responses
\* C12: a hosting-API call that returned a client error is the last call of
\* the run, and the run has ended with exit status 1: no run goes on, or
\* reaches "Finished", after a 4xx response.
C12_ClientErrorAborts ==
    \A i \in 1..Len(calls) :
       calls[i].r = "4xx" => (i = Len(calls) /\ pc = "failed" /\ exit = "1")

\* The same for every call whose response check_for_status is given: all but
\* the comment writes.
ClientErrorAbortsWhenChecked ==
    \A i \in 1..Len(calls) :
       (calls[i].r = "4xx" /\ calls[i].op \notin {"comment_create", "comment_patch"}) =>
         (i = Len(calls) /\ pc = "failed" /\ exit = "1")

\* C13: a run does not end with "Finished" when one of its branch deletions
\* got a server error.
C13_ServerErrorPropagates ==
    pc = "done" =>
      \A i \in 1..Len(calls) : ~(calls[i].op = "ref_delete" /\ calls[i].r = "5xx")

\* A server error on a call of the builder ends the run with the exception.
ServerErrorPropagatesInBuilder ==
    \A i \in 1..Len(calls) :
       (calls[i].r = "5xx" /\ calls[i].op \in BuilderOps) =>
         (i = Len(calls) /\ pc = "failed" /\ exit = "exc")

\* ------------------------------------------------------- summary comments
CommentOps == {"comment_create", "comment_patch"}

\* The body that lists the pull requests of the stack, oldest first, by the
\* title and the number the hosting side holds.
CanonicalBody ==
    [j \in 1..Len(pulls) |-> <<remote.prs[pulls[j].number].title, pulls[j].number>>]

\* The summary comments pull request n had when the comment sync started.
CommentsBefore(n) == IF n <= Len(start.prs) THEN start.prs[n].comments ELSE <<>>

\* The comment writes this run has issued for pull request n.
CommentWrites(n) == {i \in 1..Len(calls) : calls[i].op \in CommentOps /\ calls[i].n = n}

\* The sync of pull request n wrote when, and as, the comments it found
\* required.
WroteAsRequired(n) ==
    IF CommentsBefore(n) = <<>>
    THEN \E i \in 1..Len(calls) : CommentWrites(n) = {i} /\ calls[i].op = "comment_create"
    ELSE IF CommentsBefore(n)[1] # CommentBody(pulls)
    THEN \E i \in 1..Len(calls) : CommentWrites(n) = {i} /\ calls[i].op = "comment_patch"
    ELSE CommentWrites(n) = {}

CommentsInSync ==
    /\ \A j \in 1..Len(pulls) :
          remote.prs[pulls[j].number].comments = <<CanonicalBody>>
    /\ \A j \in 1..Len(pulls) : WroteAsRequired(pulls[j].number)

\* C14: when a run has ended with "Finished", every pull request of the
\* stack has exactly one summary comment, its body is the canonical list of
\* the pull requests of the stack, oldest first, and the run has written the
\* comment of a pull request exactly when it found none (create) or found a
\* first one with another body (patch).
C14_SummaryComment == Finished => CommentsInSync

\* The same when no call of the run failed and the local changes carry
\* distinct identifiers.
SummaryCommentWhenClean == (Finished /\ clean /\ DistinctIds) => CommentsInSync

\* A run in which no call failed has patched one summary comment and left
\* another one alone.
SummaryCommentCase ==
    /\ Finished /\ clean /\ DistinctIds /\ Len(pulls) = 2
    /\ \E i \in 1..Len(calls) : calls[i].op = "comment_patch"
    /\ \E j \in 1..2 : CommentsBefore(pulls[j].number) # <<>>
                          /\ CommentWrites(pulls[j].number) = {}

\* ------------------------------------------------------ fatal input errors
\* A commit without Change-Id trailer.
NoTrailer == \E i \in 1..Len(commits) : MessageOf(commits[i]) = <<>>

\* A branch of the stack prefix with more than one open pull request.
Ambiguous(rem) ==
    \E c \in Keys :
       /\ rem.refs[c] # 0
       /\ \E m, n \in 1..Len(rem.prs) :
             /\ m # n
             /\ rem.prs[m].open /\ rem.prs[m].head = StackBranch(c)
             /\ rem.prs[n].open /\ rem.prs[n].head = StackBranch(c)

\* C15: in a run whose local stack has a commit without Change-Id trailer,
\* or that started with a stack branch that has more than one open pull
\* request, no step changes the remote state, the only requests sent are the
\* git rebase and push, and no step takes the run into the builder, the
\* comment sync or the deletions, or ends it with success.
C15_FatalInput ==
    [][(runNo >= 1 /\ runNo' = runNo /\ (NoTrailer \/ Ambiguous(start))) =>
         /\ remote' = remote
         /\ Issued => NewCall.op \in {"rebase", "push"}
         /\ ~Issued => calls' = calls
         /\ pc' \in {"rebase", "push", "merge_base", "list_refs", "lookups", "failed"}
         /\ exit' # "0"
      ]_vars

\* The lookup of a branch with two open pull requests has ended the run.
C15_Witness ==
    /\ Ambiguous(start) /\ ~NoTrailer
    /\ pc = "failed" /\ exit = "exc"
    /\ tasks # {}

\* The missing trailer has ended the run at planning, after every lookup.
C15_WitnessTrailer ==
    /\ NoTrailer /\ ~Ambiguous(start)
    /\ pc = "failed" /\ exit = "1"
    /\ known_changeids # NoKnown

\* ------------------------------------------------------------------ frame
RefOps == {"ref_create", "ref_update", "ref_delete"}

\* The ref calls of the run name branches of ChangeIds of this stack.
OwnRefsOnly ==
    \A i \in 1..Len(calls) :
       calls[i].op \in RefOps =>
         /\ calls[i].id \in Ids
         /\ calls[i].id \in LocalIds \cup DOMAIN known_changeids

\* The pull requests the run has patched, marked ready or commented on have
\* the branch of a ChangeId of this stack as head.
OwnPullsOnly ==
    \A i \in 1..Len(calls) :
       calls[i].op \in {"pull_patch", "ready"} \cup CommentOps =>
         \E c \in Ids \cap (LocalIds \cup DOMAIN known_changeids) :
            remote.prs[calls[i].n].head = StackBranch(c)

\* The branches and pull requests of the stack of the local branch dest/x are
\* as the run found them.
OtherStackUnchanged ==
    /\ \A c \in NestedKeys : remote.refs[c] = start.refs[c]
    /\ \A n \in 1..Len(start.prs) :
          ChangeIdOfBranch(start.prs[n].head) \in NestedKeys =>
            remote.prs[n] = start.prs[n]

\* C16: every ref the run creates, updates or deletes is the branch of a
\* ChangeId of the stack of the checked-out branch (a local identifier or a
\* key of the index), every pull request it patches, marks ready or comments
\* on has such a branch as head, and the stack of another local branch is
\* left as it was.
C16_Frame == runNo >= 1 => (OwnRefsOnly /\ OwnPullsOnly /\ OtherStackUnchanged)

\* The name of a stack branch gives back the ChangeId it was built from.
NameRoundTrip == \A c \in Ids : ChangeIdOfBranch(StackBranch(c)) = c

\* ----------------------------------------------------- order of the builder
RefWrites == {"ref_create", "ref_update"}

\* The number of ref writes in a call log.
RefWritesIn(log) == Cardinality({m \in 1..Len(log) : log[m].op \in RefWrites})

\* C17: a ref write is issued by the builder for the k-th oldest change when
\* k-1 changes are completed and as many ref writes were issued, so it is
\* the only one for that change; it is a force-update exactly when the
\* ChangeId is a key of the index, a create otherwise, and with distinct
\* identifiers a create is for a branch that exists neither at the start of
\* the run nor when the call is made; a pull-request write is the call right
\* after the successful ref write of the same change, and the ready call the
\* one right after the successful patch; when the builder completes a
\* change, the ref writes issued are as many as the changes completed.
C17_RefWriteFirst ==
    [][/\ (Issued /\ NewCall.op \in RefWrites) =>
             /\ pc = "build_ref"
             /\ k = Len(built) + 1
             /\ RefWritesIn(calls) = Len(built)
             /\ NewCall.id = changes[Len(changes) + 1 - k].changeid
             /\ NewCall.op = "ref_update" <=> NewCall.id \in DOMAIN known_changeids
             /\ (DistinctIds /\ NewCall.op = "ref_create") =>
                   /\ start.refs[NewCall.id] = 0
                   /\ remote.refs[NewCall.id] = 0
       /\ (Issued /\ NewCall.op \in {"pull_create", "pull_patch"}) =>
             /\ calls[Len(calls)].op \in RefWrites
             /\ calls[Len(calls)].id = NewCall.id
             /\ calls[Len(calls)].r = "ok"
       /\ (Issued /\ NewCall.op = "ready") =>
             /\ calls[Len(calls)].op = "pull_patch"
             /\ calls[Len(calls)].id = NewCall.id
             /\ calls[Len(calls)].r = "ok"
       /\ Len(built') = Len(built) + 1 => RefWritesIn(calls') = Len(built')
      ]_vars

\* Both changes are built: the branch of one was force-updated although the
\* index holds no pull request for it, the branch of the other was created.
C17_Witness ==
    /\ ~dry_run /\ Len(built) = 2
    /\ \E i \in 1..Len(calls) :
          /\ calls[i].op = "ref_update"
          /\ calls[i].id \in DOMAIN known_changeids
          /\ known_changeids[calls[i].id] = None
    /\ \E i \in 1..Len(calls) : calls[i].op = "ref_create"

\* The positions of the ready-for-review calls in a call log.
ReadyIn(log) == {i \in 1..Len(log) : log[i].op = "ready"}
ReadyPositions == ReadyIn(calls)

\* C18: the ready-for-review call is issued only while the builder is on the
\* oldest change, when that change is planned as an update, right after the
\* successful patch of its pull request, for that pull request, which is the
\* one the index holds for the change, and when no ready call was issued
\* before; and when the builder completes the oldest change, a ready call
\* has been issued exactly if the change is planned as an update.
C18_ReadyTransition ==
    [][/\ (Issued /\ NewCall.op = "ready") =>
             LET oldest == changes[Len(changes)]
             IN /\ k = 1 /\ Len(built) = 0
                /\ plan[Len(changes)] = "to update"
                /\ ReadyIn(calls) = {}
                /\ calls[Len(calls)].op = "pull_patch" /\ calls[Len(calls)].r = "ok"
                /\ calls[Len(calls)].id = oldest.changeid
                /\ NewCall.id = oldest.changeid
                /\ NewCall.n = calls[Len(calls)].n
                /\ NewCall.n = known_changeids[oldest.changeid].number
       /\ (Len(built) = 0 /\ Len(built') = 1) =>
             (plan[Len(changes)] = "to update" <=> ReadyIn(calls') # {})
      ]_vars

\* The oldest change was updated and marked ready, no action was taken on the
\* next one, and the run has finished.
C18_Witness ==
    /\ Finished
    /\ Len(built) = 2
    /\ built[1].action = "updated" /\ built[2].action = "nothing"
    /\ Cardinality(ReadyPositions) = 1

\* The oldest change was left alone and the next one updated: no ready call.
C18_WitnessNone ==
    /\ Finished
    /\ Len(built) = 2
    /\ built[1].action = "nothing" /\ built[2].action = "updated"
    /\ ReadyPositions = {}

\* C19: whenever the builder gets a pull request created or patched, the
\* call is for the k-th oldest change, k being one more than the number of
\* changes completed, the pull request then holds as body the message of
\* that commit with the Depends-On reference to the pull request obtained
\* for the change before it in this run, whose head is the branch of that
\* change, and with no reference when the change is the oldest.
C19_DependsOn ==
    [][(pc = "build_pull" /\ Len(calls') = Len(calls) + 1
          /\ calls'[Len(calls')].r = "ok") =>
         LET c == calls'[Len(calls')]
             n == IF c.op = "pull_create" THEN Len(remote'.prs) ELSE c.n
             entry == changes[Len(changes) + 1 - k]
         IN /\ k = Len(built) + 1
            /\ Len(pulls) = Len(built)
            /\ c.id = entry.changeid
            /\ remote'.prs[n].head = StackBranch(entry.changeid)
            /\ remote'.prs[n].body.msg = entry.message
            /\ remote'.prs[n].body.dep = (IF k = 1 THEN 0 ELSE pulls[k - 1].number)
            /\ k > 1 =>
                  /\ pulls[k - 1].number \in 1..Len(remote.prs)
                  /\ remote.prs[pulls[k - 1].number].head =
                        StackBranch(changes[Len(changes) + 2 - k].changeid)]_vars

\* The pull request of the second change was created with the reference to
\* the pull request reused, without any action, for the oldest change.
C19_Witness ==
    /\ ~dry_run /\ Len(built) = 2
    /\ built[1].action = "nothing" /\ built[2].action = "created"
    /\ Published(2).body.dep = pulls[1].number
    /\ Published(1).body.dep = 0

\* ------------------------------------------------------------ concurrency
\* Every branch deletion of the run was served.
DeletesServed ==
    \A i \in 1..Len(calls) : calls[i].op = "ref_delete" => calls[i].r = "ok"

\* The branches of the stack prefix that exist on the remote.
Branches(rem) == {c \in Keys : rem.refs[c] # 0}

\* C20: the step that plans is taken when no lookup is pending, and the
\* index it plans from is the mapping the remote state at the start of the
\* run determines, whatever the order in which the lookups completed; the
\* step that ends a run with success is taken when no deletion is pending;
\* and when every deletion was served the branches then left on the remote
\* are those the run found or wrote, less the identifiers to delete,
\* whatever the order in which the deletions completed.
C20_JoinedTasks ==
    [][/\ (~Planned /\ Planned') =>
             (tasks = {} /\ known_changeids = IndexOf(start))
       /\ (pc # "done" /\ pc' = "done") =>
             /\ tasks = {} /\ delete_tasks = {}
             /\ (~dry_run /\ DeletesServed) =>
                   Branches(remote) = (Branches(start) \cup LocalIds) \ changeids_to_delete
      ]_vars

\* A finished run that looked up two branches and deleted both.
C20_Witness ==
    /\ Finished /\ DeletesServed
    /\ Cardinality(DOMAIN known_changeids) = 2
    /\ Cardinality(changeids_to_delete) = 2
    /\ Cardinality({i \in 1..Len(calls) : calls[i].op = "ref_delete"}) = 2

====
